---------------------------- MODULE Spec2Model ----------------------------
(***************************************************************************)
(* Background worker of the marketplace application: the job_queue table,  *)
(* the queue-drain invocation (processJobQueue) with the capture task      *)
(* (captureSubmission), the producers (enqueueJob), the review of a        *)
(* submission (PUT), the monitoring scan (processMonitoringSchedule) and    *)
(* the retention sweep (cleanupOldJobs).                                   *)
(*                                                                         *)
(* Specifications: Spec (the drain protocol), SpecCapture (the capture     *)
(* task and the reviews), SpecMonitor and SpecMonitorFair (the scan),      *)
(* SpecSweep (the sweep over the days).                                    *)
(*                                                                         *)
(* The table lives in an external store reached over HTTP.  Every request  *)
(* is one atomic step of the store.  Times are milliseconds, as in the     *)
(* code (Date.now()).  A request is modelled as delivered, except where    *)
(* the code itself branches on the response: the eligible-jobs query       *)
(* (HTTP error, transport failure) and the claim update (HTTP error).      *)
(*                                                                         *)
(* The worker is modelled from its index.ts (backoff base one minute; the  *)
(* sweep's delete carries status=in.(completed,failed)).  The older copy,  *)
(* worker-v2.ts, has the same processJobQueue with a base of five minutes, *)
(* but its client's update() and delete() are async, so that               *)
(* update(...).eq is not a function there and no claim is ever sent.       *)
(***************************************************************************)
EXTENDS Integers, Sequences, FiniteSets, TLC

VARIABLES
    now,         \* the wall clock, ms
    job_queue,   \* the job_queue table: a function from the ids of its rows
    nextId,      \* the next row id the store hands out
    pc,          \* per invocation of processJobQueue: where it stands
    batch,       \* per invocation: the jobs of its snapshot not yet handled
    processed,   \* per invocation: its local counter `processed`
    log,         \* per invocation: what it logged for each job it got to
    submissions,          \* the submissions table (its status column)
    submission_captures,  \* the submission_captures table: a set of rows
    monitoring_schedule,  \* the monitoring_schedule table
    scan_pc,     \* per invocation of processMonitoringSchedule: where it stands
    scan_batch,  \* per invocation: the schedules of its snapshot not yet handled
    review,      \* per submission: the status a review request is about to write
    request,     \* per invocation: the Authorization header of the POST /trigger
                 \* request that runs it (NoRequest: the cron trigger runs it)
    enqueued,    \* what the latest call of enqueueJob returned
    env          \* the worker's bindings: which of them are configured

subVars == <<submissions, submission_captures, review>>
monVars == <<monitoring_schedule, scan_pc, scan_batch>>
envVars == <<request, enqueued, env>>
vars == <<now, job_queue, nextId, pc, batch, processed, log,
          submissions, submission_captures, review,
          monitoring_schedule, scan_pc, scan_batch,
          request, enqueued, env>>

(***************************************************************************)
(* Bounds of the model.                                                    *)
(***************************************************************************)
MaxJobs == 2          \* rows ever inserted
NWorkers == 2         \* invocations of processJobQueue (each runs once)
MaxMaxAttempts == 2   \* largest max_attempts a row is created with
MaxTicks == 1         \* one-minute advances of the clock
MaxDays == 8          \* one-day advances of the clock
NSubs == 1            \* submissions
NScans == 2           \* invocations of processMonitoringSchedule at a time
MaxQueued == 4        \* rows the monitoring scans ever insert
MaxHalfDays == 2      \* twelve-hour advances of the clock
MaxRuns == 3          \* outcomes one worker logs over its successive cycles

(***************************************************************************)
(* Program constants.                                                      *)
(***************************************************************************)
BackoffBaseMs == 60000
BatchLimit == 10
RetentionDays == 7
DayMs == 86400000
RetentionMs == RetentionDays * DayMs
MinuteMs == 60000
MonitorPriority == 5
ScanLimit == 20
DefaultIntervalHours == 24
InitialChecks == 30
HourMs == 3600000
HalfDayHours == DefaultIntervalHours \div 2

Workers == 1..NWorkers
Scans == 1..NScans
NULL == 0             \* locked_by = null (worker ids are 1..NWorkers)
NoTime == -1          \* a null timestamp

CaptureTypes == {"capture_submission", "monitor_submission"}

SubIds == 1..NSubs

\* The statuses after which a submission is no longer monitored.
TerminalStatuses == {"approved", "rejected", "completed"}
NoPayload == [submission_id |-> NULL, capture_type |-> ""]

\* An invocation that no HTTP request runs.
NoRequest == [trigger |-> FALSE, Authorization |-> ""]

\* The screenshot bindings of Env: is each of them set (to a non-empty string).
AllConfigured == [SCREENSHOT_API_URL |-> TRUE, SCREENSHOT_API_KEY |-> TRUE]

\* The payload of a capture job.
CapturePayload(sid, captureType) ==
    [submission_id |-> sid, capture_type |-> captureType]

RECURSIVE Pow2(_)
Pow2(n) == IF n <= 0 THEN 1 ELSE 2 * Pow2(n - 1)

Rows == DOMAIN job_queue

(***************************************************************************)
(* The store.                                                              *)
(***************************************************************************)

\* The columns of a new row that the insert does not give: the table's
\* defaults (a pending, unheld job that was never attempted, created now).
\* The table's max_attempts default is not fixed here: any value from 1 up.
ColumnDefaults(max_attempts) ==
    [ status        |-> "pending",
      attempts      |-> 0,
      max_attempts  |-> max_attempts,
      locked_by     |-> NULL,
      locked_at     |-> NoTime,
      created_at    |-> now,
      completed_at  |-> NoTime,
      error_message |-> "" ]

\* The row an insert of enqueueJob creates.
NewJob(type, payload, priority, scheduled_for, max_attempts) ==
    [ job_type      |-> type,
      payload       |-> payload,
      priority      |-> priority,
      scheduled_for |-> scheduled_for ] @@ ColumnDefaults(max_attempts)

\* PATCH job_queue?id=eq.<id>: the row with that id, if there is one, gets the
\* given columns; no other condition is sent.
UpdateEqId(table, id, record) ==
    IF id \in DOMAIN table
    THEN [table EXCEPT ![id] =
            [c \in DOMAIN @ |-> IF c \in DOMAIN record THEN record[c] ELSE @[c]]]
    ELSE table

\* (mutant) the filter without its scheduled_for term.
EligibleIgnoringSchedule(id) ==
    /\ job_queue[id].status = "pending"
    /\ job_queue[id].locked_by = NULL

\* The filter of the eligible-jobs query:
\* status=eq.pending & scheduled_for=lte.<now> & locked_by=is.null
Eligible(id) ==
    /\ job_queue[id].status = "pending"
    /\ job_queue[id].scheduled_for <= now
    /\ job_queue[id].locked_by = NULL

EligibleIds == {id \in Rows : Eligible(id)}

\* (mutant) order=priority.desc only.
BeforeByPriority(a, b) == job_queue[a].priority >= job_queue[b].priority

\* order=priority.desc,scheduled_for.asc: a may come before b.
Before(a, b) ==
    \/ job_queue[a].priority > job_queue[b].priority
    \/ /\ job_queue[a].priority = job_queue[b].priority
       /\ job_queue[a].scheduled_for <= job_queue[b].scheduled_for

\* Every sequence the store may answer with: the rows of S, each once, in the
\* requested order (rows that tie come in any order).
RECURSIVE Orderings(_)
Orderings(S) ==
    IF S = {} THEN {<< >>}
    ELSE UNION {{<<a>> \o s : s \in Orderings(S \ {a})} :
                  a \in {x \in S : \A y \in S : Before(x, y)}}

Min(a, b) == IF a <= b THEN a ELSE b

\* What the worker keeps of a row of its snapshot.
Snap(id) ==
    [ id           |-> id,
      job_type     |-> job_queue[id].job_type,
      payload      |-> job_queue[id].payload,
      attempts     |-> job_queue[id].attempts,
      max_attempts |-> job_queue[id].max_attempts ]

\* The answers of the eligible-jobs query, limit=10 applied.
SelectJobs ==
    {[i \in 1..Min(BatchLimit, Len(s)) |-> Snap(s[i])] : s \in Orderings(EligibleIds)}

(***************************************************************************)
(* The records processJobQueue writes.                                     *)
(***************************************************************************)

\* The claim ("Try to lock the job"); job is the row as the snapshot has it.
ClaimRecord(w, job) ==
    [ locked_by |-> w,
      locked_at |-> now,
      status    |-> "processing",
      attempts  |-> job.attempts + 1 ]

\* (mutant) the completed update without locked_by: null.
CompletedRecordKeepsLock ==
    [ status       |-> "completed",
      completed_at |-> now ]

\* "Mark as completed"
CompletedRecord ==
    [ status       |-> "completed",
      completed_at |-> now,
      locked_by    |-> NULL ]

\* "Max retries reached - mark as failed"
FailedRecord ==
    [ status        |-> "failed",
      error_message |-> "error",
      locked_by     |-> NULL ]

\* Math.pow(2, job.attempts) * 60000
BackoffMs(job) == Pow2(job.attempts) * BackoffBaseMs

\* (mutant) the retry without its delay.
RetryRecordImmediate(job) ==
    [ status        |-> "pending",
      scheduled_for |-> now,
      error_message |-> "error",
      locked_by     |-> NULL ]

\* (mutant) the retry without locked_by: null.
RetryRecordKeepsLock(job) ==
    [ status        |-> "pending",
      scheduled_for |-> now + BackoffMs(job),
      error_message |-> "error" ]

\* "Retry with exponential backoff"
RetryRecord(job) ==
    [ status        |-> "pending",
      scheduled_for |-> now + BackoffMs(job),
      error_message |-> "error",
      locked_by     |-> NULL ]

\* (mutant) the comparison on the snapshot's attempts alone.
MaxRetriesReachedLate(job) == job.attempts >= job.max_attempts

\* job.attempts + 1 >= job.max_attempts
MaxRetriesReached(job) == job.attempts + 1 >= job.max_attempts

\* The handler of a job can reject only where executeJob awaits something:
\* the capture task.  The other types log and return.
HandlerCanFail(job) == job.job_type \in CaptureTypes

\* The types whose case only logs.
LoggedTypes == {"send_email", "send_push", "process_payment"}

\* (mutant) the switch with a default branch that throws.
executeJobStrict(job) ==
    IF HandlerCanFail(job) THEN "capture"
    ELSE IF job.job_type \in LoggedTypes THEN "returns" ELSE "throws"

\* The switch of executeJob: the capture types run captureSubmission, every
\* other type, the default branch included, logs and returns.
executeJob(job) == IF HandlerCanFail(job) THEN "capture" ELSE "returns"

\* The position of an invocation that is inside the try block.
HandlerPcs == {"exec", "capturing", "recorded", "caught", "ok", "err"}

(***************************************************************************)
(* Init: an empty job table, a new submission, no invocation started.      *)
(***************************************************************************)
Init ==
    /\ now = 0
    /\ job_queue = << >>
    /\ nextId = 1
    /\ pc = [w \in Workers |-> "idle"]
    /\ batch = [w \in Workers |-> << >>]
    /\ processed = [w \in Workers |-> 0]
    /\ log = [w \in Workers |-> << >>]
    /\ submissions = [s \in SubIds |-> [status |-> "pending"]]
    /\ submission_captures = {}
    /\ review = [s \in SubIds |-> ""]
    /\ monitoring_schedule = << >>
    /\ scan_pc = [sc \in Scans |-> "idle"]
    /\ scan_batch = [sc \in Scans |-> << >>]
    /\ request = [w \in Workers |-> NoRequest]
    /\ enqueued = NULL
    /\ env = AllConfigured

(***************************************************************************)
(* Producers.                                                              *)
(***************************************************************************)

\* options.priority || 0
PriorityOf(options) == IF options.priority # NULL THEN options.priority ELSE 0

\* (mutant) options.scheduledFor without the default.
ScheduledForRaw(options) == options.scheduledFor

\* options.scheduledFor || new Date()
ScheduledForOf(options) ==
    IF options.scheduledFor # NoTime THEN options.scheduledFor ELSE now

\* The calls of enqueueJob: the initial capture of a new submission
\* (priority 10), a push notification (no options), and a call that passes a
\* scheduledFor one minute ahead.
EnqueueCalls ==
    { [type |-> "capture_submission", payload |-> CapturePayload(1, "initial"),
       options |-> [priority |-> 10, scheduledFor |-> NoTime]],
      [type |-> "send_push", payload |-> NoPayload,
       options |-> [priority |-> NULL, scheduledFor |-> NoTime]],
      [type |-> "capture_submission", payload |-> CapturePayload(1, "initial"),
       options |-> [priority |-> NULL, scheduledFor |-> now + MinuteMs]] }

\* enqueueJob(type, payload, options): one insert into job_queue, answered
\* with the new row's id (.select('id').single()), which is returned.
enqueueJob(type, payload, options, max_attempts) ==
    /\ nextId <= MaxJobs
    /\ job_queue' = (nextId :> NewJob(type, payload, PriorityOf(options),
                                      ScheduledForOf(options), max_attempts))
                        @@ job_queue
    /\ nextId' = nextId + 1
    /\ enqueued' = nextId
    /\ UNCHANGED <<request, env, now, pc, batch, processed, log, subVars, monVars>>

\* enqueueJob when the store answers the insert with an error:
\* console.error, return null.
enqueueJobRefused(type, payload, options) ==
    /\ enqueued' = NULL
    /\ UNCHANGED <<request, env, now, job_queue, nextId, pc, batch, processed, log,
                   subVars, monVars>>

\* A row of a type that the switch of executeJob has no case for (job_type is
\* a string; the insert gives the type only).
InsertForeignJob(max_attempts) ==
    /\ nextId <= MaxJobs
    /\ job_queue' = (nextId :> NewJob("generate_report", NoPayload, 0, now,
                                      max_attempts)) @@ job_queue
    /\ nextId' = nextId + 1
    /\ UNCHANGED <<envVars, now, pc, batch, processed, log, subVars, monVars>>

\* The job the monitoring scan inserts for a due schedule.
MonitorJob(sid, max_attempts) ==
    NewJob("monitor_submission", CapturePayload(sid, "scheduled"),
           MonitorPriority, now, max_attempts)

\* The scan's insert, seen from the queue.
MonitorJobQueued(sid, max_attempts) ==
    /\ nextId <= MaxJobs
    /\ job_queue' = (nextId :> MonitorJob(sid, max_attempts)) @@ job_queue
    /\ nextId' = nextId + 1
    /\ UNCHANGED <<envVars, now, pc, batch, processed, log, subVars, monVars>>

(***************************************************************************)
(* PUT /api/v1/submissions/:id, the review of a submission.  The handler   *)
(* does not look at the status the submission has.                         *)
(***************************************************************************)
ReviewStatuses == {"approved", "rejected", "in_review"}

\* monitoring_schedule: update({is_active: false}).eq('submission_id', id)
DeactivateBySubmission(sid) ==
    [id \in DOMAIN monitoring_schedule |->
        IF monitoring_schedule[id].submission_id = sid
        THEN [monitoring_schedule[id] EXCEPT !.is_active = FALSE]
        ELSE monitoring_schedule[id]]

\* The job enqueued on approval: enqueueJob('process_payment', {..}); an
\* insert the store refuses makes enqueueJob return null.
PaymentJobEnqueued ==
    IF nextId <= MaxJobs
    THEN /\ job_queue' = (nextId :> NewJob("process_payment", NoPayload, 0, now, 1))
                             @@ job_queue
         /\ nextId' = nextId + 1
         /\ enqueued' = nextId
    ELSE /\ enqueued' = NULL
         /\ UNCHANGED <<job_queue, nextId>>

\* if (body.status === 'approved') / if (body.status === 'rejected'): the
\* side effects that come before the update of the submission.  (The push
\* job of the notification is the send_push call of EnqueueCalls.)
ReviewBegin(sid, status) ==
    /\ sid \in DOMAIN submissions
    /\ review[sid] = ""
    /\ review' = [review EXCEPT ![sid] = status]
    /\ IF status = "approved" THEN PaymentJobEnqueued
       ELSE UNCHANGED <<job_queue, nextId, enqueued>>
    /\ monitoring_schedule' =
          IF status \in {"approved", "rejected"}
          THEN DeactivateBySubmission(sid) ELSE monitoring_schedule
    /\ UNCHANGED <<request, env, now, pc, batch, processed, log, submissions,
                   submission_captures, scan_pc, scan_batch>>

\* "Update submission": update(updateData).eq('id', id)
ReviewWrite(sid) ==
    /\ review[sid] # ""
    /\ submissions' = UpdateEqId(submissions, sid, [status |-> review[sid]])
    /\ review' = [review EXCEPT ![sid] = ""]
    /\ UNCHANGED <<envVars, now, job_queue, nextId, pc, batch, processed, log,
                   submission_captures, monVars>>

(***************************************************************************)
(* processJobQueue, one invocation w.  pc[w]:                              *)
(*   idle      not started                                                 *)
(*   claim     at the head of the for loop, about to claim Head(batch[w])  *)
(*   exec      inside the try: executeJob(Head(batch[w])) is called        *)
(*   capturing, recorded, caught                                           *)
(*             inside captureSubmission (see there)                        *)
(*   ok, err   captureSubmission returned / rejected                       *)
(*   returned  returned `processed`                                        *)
(*   threw     rejected: the error went to the caller                      *)
(*   dead      the platform killed the invocation                          *)
(***************************************************************************)

\* The job the loop is at.
Cur(w) == Head(batch[w])

\* console.log / console.error of the outcome of the job the loop is at.
Log(w, what) ==
    log' = [log EXCEPT ![w] = Append(@, [id |-> Cur(w).id, what |-> what])]

\* The end of a loop iteration (also `continue`): next job, or return processed.
NextIteration(w) ==
    /\ batch' = [batch EXCEPT ![w] = Tail(@)]
    /\ pc' = [pc EXCEPT ![w] = IF Tail(batch[w]) = << >> THEN "returned" ELSE "claim"]

\* Invocations start in the order of their ids (they are interchangeable).
\* The cron trigger starts an invocation that runs nothing yet; an invocation
\* the fetch handler let in starts its cycle.
MayStart(w) ==
    \/ pc[w] = "trigger"
    \/ pc[w] = "idle" /\ (IF w = 1 THEN TRUE ELSE pc[w - 1] # "idle")

\* env.SUPABASE_SERVICE_KEY, the service credential.
ServiceKey == "service-key"

\* The Authorization headers a request may carry: none (headers.get answers
\* null), the credential as a bearer token, another bearer token, the
\* credential without the scheme.
Headers == {"", "Bearer " \o ServiceKey, "Bearer other-key", ServiceKey}

\* (mutant) a check that accepts the credential with or without the scheme.
AuthorizedByKey(h) == h \in {"Bearer " \o ServiceKey, ServiceKey}

\* auth !== `Bearer ${env.SUPABASE_SERVICE_KEY}` is false.
Authorized(h) == h = "Bearer " \o ServiceKey

\* fetch, POST /trigger: the header is compared; a request that passes goes
\* on to processJobQueue, any other is answered 401 at once.
Trigger(w, h) ==
    /\ pc[w] = "idle" /\ (IF w = 1 THEN TRUE ELSE pc[w - 1] # "idle")
    /\ request' = [request EXCEPT ![w] = [trigger |-> TRUE, Authorization |-> h]]
    /\ pc' = [pc EXCEPT ![w] = IF Authorized(h) THEN "trigger" ELSE "unauthorized"]
    /\ UNCHANGED <<enqueued, env, now, job_queue, nextId, batch, processed, log,
                   subVars, monVars>>

\* No response (the invocation serves no request, or has not answered yet).
NoResponse == [status |-> 0, success |-> FALSE, processed |-> -1]

\* The response of the fetch handler to the request that runs w:
\* 401 {error}, 200 {success: true, processed}, 500 {success: false, error}.
Response(w) ==
    IF ~request[w].trigger THEN NoResponse
    ELSE IF pc[w] = "unauthorized"
         THEN [status |-> 401, success |-> FALSE, processed |-> -1]
    ELSE IF pc[w] = "returned"
         THEN [status |-> 200, success |-> TRUE, processed |-> processed[w]]
    ELSE IF pc[w] = "threw"
         THEN [status |-> 500, success |-> FALSE, processed |-> -1]
    ELSE NoResponse

\* The eligible-jobs query answers; an empty answer returns 0.
SelectPending(w) ==
    /\ MayStart(w)
    /\ \E jobs \in SelectJobs :
         /\ batch' = [batch EXCEPT ![w] = jobs]
         /\ pc' = [pc EXCEPT ![w] = IF jobs = << >> THEN "returned" ELSE "claim"]
    /\ UNCHANGED <<envVars, now, job_queue, nextId, processed, log, subVars, monVars>>

\* The query's response is not ok: query() answers [], the cycle returns 0.
SelectNotOk(w) ==
    /\ MayStart(w)
    /\ pc' = [pc EXCEPT ![w] = "returned"]
    /\ UNCHANGED <<envVars, now, job_queue, nextId, batch, processed, log, subVars, monVars>>

\* The query's fetch rejects: processJobQueue rejects.
SelectThrows(w) ==
    /\ MayStart(w)
    /\ pc' = [pc EXCEPT ![w] = "threw"]
    /\ UNCHANGED <<envVars, now, job_queue, nextId, batch, processed, log, subVars, monVars>>

\* The claim update is answered ok: the worker enters the try block.
Claim(w) ==
    /\ pc[w] = "claim"
    /\ job_queue' = UpdateEqId(job_queue, Cur(w).id, ClaimRecord(w, Cur(w)))
    /\ pc' = [pc EXCEPT ![w] = "exec"]
    /\ UNCHANGED <<envVars, now, nextId, batch, processed, log, subVars, monVars>>

\* The claim update is answered with an error: "Failed to lock job", continue.
ClaimError(w) ==
    /\ pc[w] = "claim"
    /\ Log(w, "Failed to lock job")
    /\ NextIteration(w)
    /\ UNCHANGED <<envVars, now, job_queue, nextId, processed, subVars, monVars>>

(***************************************************************************)
(* captureSubmission(payload), called by the invocation w.                 *)
(*   capturing  the status update of step 1 is done                        *)
(*   recorded   the capture row of the success path is inserted            *)
(*   caught     the capture row of the catch block is inserted and the     *)
(*              capture type is initial                                    *)
(***************************************************************************)

\* The status of a submission ("" when there is no such row).
StatusOf(sid) == IF sid \in DOMAIN submissions THEN submissions[sid].status ELSE ""

\* (mutant) the capture row without the screenshot's URL.
CaptureRowWithoutUrl(w, isLive) ==
    [ run           |-> <<w, Len(log[w])>>,
      submission_id |-> Cur(w).payload.submission_id,
      capture_type  |-> Cur(w).payload.capture_type,
      is_live       |-> isLive,
      screenshot_url |-> << >>,
      error_message |-> IF isLive THEN "" ELSE "error" ]

\* (mutant) the capture row without the error's message.
CaptureRowWithoutError(w, isLive) ==
    [ run           |-> <<w, Len(log[w])>>,
      submission_id |-> Cur(w).payload.submission_id,
      capture_type  |-> Cur(w).payload.capture_type,
      is_live       |-> isLive,
      screenshot_url |-> IF isLive
                         THEN <<"captures", Cur(w).payload.submission_id, now>>
                         ELSE << >>,
      error_message |-> "" ]

\* (mutant) the check that looks at the endpoint only.
ConfiguredUrlOnly(e) == e.SCREENSHOT_API_URL

\* if (!env.SCREENSHOT_API_URL || !env.SCREENSHOT_API_KEY) throw ..
Configured(e) == e.SCREENSHOT_API_URL /\ e.SCREENSHOT_API_KEY

\* The message of the error steps 2 to 4 throw: that of the configuration
\* check, or that of the call that failed (screenshot service, storage).
CaptureError ==
    IF Configured(env) THEN "error" ELSE "Screenshot service not configured"

\* The row of submission_captures a run inserts; run names the run.
CaptureRow(w, isLive) ==
    [ run           |-> <<w, Len(log[w])>>,
      submission_id |-> Cur(w).payload.submission_id,
      capture_type  |-> Cur(w).payload.capture_type,
      is_live       |-> isLive,
      screenshot_url |-> IF isLive
                         THEN <<"captures", Cur(w).payload.submission_id, now>>
                         ELSE << >>,
      error_message |-> IF isLive THEN "" ELSE CaptureError ]

\* "1. Update submission status": update({status: 'capturing'}).eq('id', ..)
CaptureBegin(w) ==
    /\ pc[w] = "exec"
    /\ executeJob(Cur(w)) = "capture"
    /\ submissions' = UpdateEqId(submissions, Cur(w).payload.submission_id,
                                 [status |-> "capturing"])
    /\ pc' = [pc EXCEPT ![w] = "capturing"]
    /\ UNCHANGED <<envVars, now, job_queue, nextId, batch, processed, log,
                   submission_captures, review, monVars>>

\* Steps 2 to 4: the service is configured, the screenshot is taken (POST to
\* the screenshot service) and uploaded (POST to the object storage), the
\* capture row is inserted with is_live: true.
CaptureRecord(w) ==
    /\ pc[w] = "capturing"
    /\ Configured(env)
    /\ submission_captures' = submission_captures \cup {CaptureRow(w, TRUE)}
    /\ pc' = [pc EXCEPT ![w] = "recorded"]
    /\ UNCHANGED <<envVars, now, job_queue, nextId, batch, processed, log,
                   submissions, review, monVars>>

\* "5. Update submission status to monitoring"; captureSubmission returns.
CaptureMonitoring(w) ==
    /\ pc[w] = "recorded"
    /\ submissions' = UpdateEqId(submissions, Cur(w).payload.submission_id,
                                 [status |-> "monitoring"])
    /\ pc' = [pc EXCEPT ![w] = "ok"]
    /\ UNCHANGED <<envVars, now, job_queue, nextId, batch, processed, log,
                   submission_captures, review, monVars>>

\* if (captureType === 'initial') { ..status: 'monitoring'.. }; throw err
AfterCaught(captureType) == IF captureType = "initial" THEN "caught" ELSE "err"

\* A step of 2 to 4 throws (the service is not configured, or it is and the
\* screenshot or the upload failed): the catch block inserts the capture row
\* with is_live: false.
CaptureCaught(w) ==
    /\ pc[w] = "capturing"
    /\ submission_captures' = submission_captures \cup {CaptureRow(w, FALSE)}
    /\ pc' = [pc EXCEPT ![w] = AfterCaught(Cur(w).payload.capture_type)]
    /\ UNCHANGED <<envVars, now, job_queue, nextId, batch, processed, log,
                   submissions, review, monVars>>

\* The catch block, initial capture: "Start monitoring anyway"; throw err.
CaptureCaughtMonitoring(w) ==
    /\ pc[w] = "caught"
    /\ submissions' = UpdateEqId(submissions, Cur(w).payload.submission_id,
                                 [status |-> "monitoring"])
    /\ pc' = [pc EXCEPT ![w] = "err"]
    /\ UNCHANGED <<envVars, now, job_queue, nextId, batch, processed, log,
                   submission_captures, review, monVars>>

\* executeJob returned: mark completed, processed++.
Complete(w) ==
    /\ \/ pc[w] = "ok"
       \/ pc[w] = "exec" /\ executeJob(Cur(w)) = "returns"
    /\ job_queue' = UpdateEqId(job_queue, Cur(w).id, CompletedRecord)
    /\ processed' = [processed EXCEPT ![w] = @ + 1]
    /\ Log(w, "Completed")
    /\ NextIteration(w)
    /\ UNCHANGED <<envVars, now, nextId, subVars, monVars>>

\* (mutant) the catch block rethrows after its update.
HandlerFailsRethrown(w) ==
    /\ \/ pc[w] = "err"
       \/ pc[w] = "exec" /\ executeJob(Cur(w)) = "throws"
    /\ job_queue' = UpdateEqId(job_queue, Cur(w).id,
                        IF MaxRetriesReached(Cur(w)) THEN FailedRecord
                        ELSE RetryRecord(Cur(w)))
    /\ Log(w, "Failed")
    /\ pc' = [pc EXCEPT ![w] = "threw"]
    /\ UNCHANGED <<envVars, now, nextId, batch, processed, subVars, monVars>>

\* (mutant) the catch block counts the job as processed.
HandlerFailsCounted(w) ==
    /\ \/ pc[w] = "err"
       \/ pc[w] = "exec" /\ executeJob(Cur(w)) = "throws"
    /\ job_queue' = UpdateEqId(job_queue, Cur(w).id,
                        IF MaxRetriesReached(Cur(w)) THEN FailedRecord
                        ELSE RetryRecord(Cur(w)))
    /\ processed' = [processed EXCEPT ![w] = @ + 1]
    /\ Log(w, "Failed")
    /\ NextIteration(w)
    /\ UNCHANGED <<envVars, now, nextId, subVars, monVars>>

\* executeJob rejected: the catch block marks the job failed or reschedules it.
HandlerFails(w) ==
    /\ \/ pc[w] = "err"
       \/ pc[w] = "exec" /\ executeJob(Cur(w)) = "throws"
    /\ job_queue' = UpdateEqId(job_queue, Cur(w).id,
                        IF MaxRetriesReached(Cur(w)) THEN FailedRecord
                        ELSE RetryRecord(Cur(w)))
    /\ Log(w, "Failed")
    /\ NextIteration(w)
    /\ UNCHANGED <<envVars, now, nextId, processed, subVars, monVars>>

\* The platform ends the invocation while a handler runs.
Die(w) ==
    /\ pc[w] \in HandlerPcs
    /\ pc' = [pc EXCEPT ![w] = "dead"]
    /\ UNCHANGED <<envVars, now, job_queue, nextId, batch, processed, log, subVars, monVars>>

(***************************************************************************)
(* cleanupOldJobs: DELETE job_queue?created_at=lt.<cutoff>                 *)
(*                        &status=in.(completed,failed)                    *)
(***************************************************************************)
Cutoff == now - RetentionMs

\* (mutant) the filter without its status term, as the client of the older
\* copy of the worker builds it.
SweptAnyStatus(id) == job_queue[id].created_at < Cutoff

Swept(id) ==
    /\ job_queue[id].created_at < Cutoff
    /\ job_queue[id].status \in {"completed", "failed"}

cleanupOldJobs ==
    /\ \E id \in Rows : Swept(id)
    /\ job_queue' = [id \in {r \in Rows : ~Swept(r)} |-> job_queue[id]]
    /\ UNCHANGED <<envVars, now, nextId, pc, batch, processed, log, subVars, monVars>>

(***************************************************************************)
(* The clock.                                                              *)
(***************************************************************************)
Minutes(t) == (t % DayMs) \div MinuteMs
Days(t) == t \div DayMs

Tick ==
    /\ Minutes(now) < MaxTicks
    /\ now' = now + MinuteMs
    /\ UNCHANGED <<envVars, job_queue, nextId, pc, batch, processed, log, subVars, monVars>>

\* A day passes.  The platform ends an invocation long before that, so none
\* is in progress when it has.
DayPasses ==
    /\ Days(now) < MaxDays
    /\ \A w \in Workers : pc[w] \notin {"claim"} \cup HandlerPcs
    /\ now' = now + DayMs
    /\ UNCHANGED <<envVars, job_queue, nextId, pc, batch, processed, log, subVars, monVars>>

Next ==
    \/ \E call \in EnqueueCalls, m \in 1..MaxMaxAttempts :
          enqueueJob(call.type, call.payload, call.options, m)
    \/ \E w \in Workers : SelectPending(w)
    \/ \E w \in Workers : SelectNotOk(w)
    \/ \E w \in Workers : SelectThrows(w)
    \/ \E w \in Workers : Claim(w)
    \/ \E w \in Workers : ClaimError(w)
    \/ \E w \in Workers : CaptureBegin(w)
    \/ \E w \in Workers : CaptureRecord(w)
    \/ \E w \in Workers : CaptureMonitoring(w)
    \/ \E w \in Workers : CaptureCaught(w)
    \/ \E w \in Workers : CaptureCaughtMonitoring(w)
    \/ \E w \in Workers : Complete(w)
    \/ \E w \in Workers : HandlerFails(w)
    \/ \E w \in Workers : Die(w)
    \/ Tick

Spec == Init /\ [][Next]_vars

(***************************************************************************)
(* The retention sweep, over the days: jobs come in, invocations drain     *)
(* them (or die), days pass, the sweep runs.                               *)
(***************************************************************************)
\* One invocation is enough to leave rows of every status behind.
OneWorker == {1}

NextSweep ==
    \/ \E call \in EnqueueCalls :
          enqueueJob(call.type, call.payload, call.options, 1)
    \/ \E w \in OneWorker : SelectPending(w)
    \/ \E w \in OneWorker : Claim(w)
    \/ \E w \in OneWorker : CaptureBegin(w)
    \/ \E w \in OneWorker : CaptureRecord(w)
    \/ \E w \in OneWorker : CaptureMonitoring(w)
    \/ \E w \in OneWorker : CaptureCaught(w)
    \/ \E w \in OneWorker : CaptureCaughtMonitoring(w)
    \/ \E w \in OneWorker : Complete(w)
    \/ \E w \in OneWorker : HandlerFails(w)
    \/ \E w \in OneWorker : Die(w)
    \/ cleanupOldJobs
    \/ DayPasses

SpecSweep == Init /\ [][NextSweep]_vars

(***************************************************************************)
(* processMonitoringSchedule, one invocation sc.  scan_pc[sc]:             *)
(*   idle        not running (an invocation that returned leaves its slot  *)
(*               to the next one)                                          *)
(*   fetch       at the head of the for loop, about to query the           *)
(*               submission of Head(scan_batch[sc])                        *)
(*   deactivate  the submission is missing or finished                     *)
(*   enqueue     the submission is monitored: about to insert the job      *)
(*   update      the job is inserted: about to update the schedule         *)
(***************************************************************************)
Schedules == DOMAIN monitoring_schedule

\* (mutant) the filter without its checks_remaining term.
DueIgnoringChecks(id) ==
    /\ monitoring_schedule[id].is_active
    /\ monitoring_schedule[id].next_check_at <= now

\* The filter of the scan's query:
\* is_active=eq.true & checks_remaining=gt.0 & next_check_at=lte.<now>
Due(id) ==
    /\ monitoring_schedule[id].is_active
    /\ monitoring_schedule[id].checks_remaining > 0
    /\ monitoring_schedule[id].next_check_at <= now

\* What the scan keeps of a row of its snapshot.
ScheduleSnap(id) ==
    [ id                   |-> id,
      submission_id        |-> monitoring_schedule[id].submission_id,
      check_interval_hours |-> monitoring_schedule[id].check_interval_hours,
      checks_remaining     |-> monitoring_schedule[id].checks_remaining,
      total_checks         |-> monitoring_schedule[id].total_checks ]

\* The answers of the scan's query: the due rows, in any order, limit=20.
SelectSchedules ==
    LET S == {id \in Schedules : Due(id)} IN
    {[i \in 1..Min(ScanLimit, Len(q)) |-> ScheduleSnap(q[i])] :
        q \in {q \in [1..Cardinality(S) -> S] :
                 \A i, k \in 1..Cardinality(S) : i # k => q[i] # q[k]}}

\* The schedule the loop is at.
CurSchedule(sc) == Head(scan_batch[sc])

\* The end of an iteration of the scan's loop (also `continue`).
NextSchedule(sc) ==
    /\ scan_batch' = [scan_batch EXCEPT ![sc] = Tail(@)]
    /\ scan_pc' = [scan_pc EXCEPT ![sc] =
                      IF Tail(scan_batch[sc]) = << >> THEN "idle" ELSE "fetch"]

\* Invocations take the free slots in the order of their ids.
ScanMayStart(sc) ==
    scan_pc[sc] = "idle" /\ (IF sc = 1 THEN TRUE ELSE scan_pc[sc - 1] # "idle")

\* The scan's query answers; with no row due the scan returns.
ScanSelect(sc) ==
    /\ ScanMayStart(sc)
    /\ \E rows \in SelectSchedules :
         /\ scan_batch' = [scan_batch EXCEPT ![sc] = rows]
         /\ scan_pc' = [scan_pc EXCEPT ![sc] = IF rows = << >> THEN "idle" ELSE "fetch"]
    /\ UNCHANGED <<envVars, now, job_queue, nextId, pc, batch, processed, log, subVars,
                   monitoring_schedule>>

\* (mutant) the test of the submission without the completed status.
FinishedUnlessCompleted(answer) ==
    answer = "" \/ answer \in {"rejected", "approved"}

\* !submission || ['rejected', 'approved', 'completed'].includes(status);
\* answer is the status of the row the query returned, "" when it returned
\* none.
Finished(answer) == answer = "" \/ answer \in TerminalStatuses

\* The answers of the query of the submission: its row, or, when the
\* response is not ok, no row (query() answers []).
SubmissionAnswers(sid) == {StatusOf(sid), ""}

\* "Get submission details" and the test that follows.
ScanFetch(sc) ==
    /\ scan_pc[sc] = "fetch"
    /\ \E answer \in SubmissionAnswers(CurSchedule(sc).submission_id) :
         scan_pc' = [scan_pc EXCEPT ![sc] =
                       IF Finished(answer) THEN "deactivate" ELSE "enqueue"]
    /\ UNCHANGED <<envVars, now, job_queue, nextId, pc, batch, processed, log, subVars,
                   monitoring_schedule, scan_batch>>

\* "Deactivate monitoring for finished submissions"; continue.
ScanDeactivate(sc) ==
    /\ scan_pc[sc] = "deactivate"
    /\ monitoring_schedule' = UpdateEqId(monitoring_schedule, CurSchedule(sc).id,
                                         [is_active |-> FALSE])
    /\ NextSchedule(sc)
    /\ UNCHANGED <<envVars, now, job_queue, nextId, pc, batch, processed, log, subVars>>

\* "Queue a monitoring job"
ScanEnqueue(sc, max_attempts) ==
    /\ scan_pc[sc] = "enqueue"
    /\ nextId <= MaxQueued
    /\ job_queue' = (nextId :> MonitorJob(CurSchedule(sc).submission_id, max_attempts))
                        @@ job_queue
    /\ nextId' = nextId + 1
    /\ scan_pc' = [scan_pc EXCEPT ![sc] = "update"]
    /\ UNCHANGED <<envVars, now, pc, batch, processed, log, subVars,
                   monitoring_schedule, scan_batch>>

\* (mutant) the interval without the schedule's own value.
IntervalHoursFixed(schedule) == DefaultIntervalHours

\* schedule.check_interval_hours || 24
IntervalHours(schedule) ==
    IF schedule.check_interval_hours # NULL
    THEN schedule.check_interval_hours ELSE DefaultIntervalHours

\* (mutant) the update without the total_checks column.
NextCheckRecordWithoutTotal(schedule) ==
    [ next_check_at    |-> now + IntervalHours(schedule) * HourMs,
      checks_remaining |-> schedule.checks_remaining - 1,
      last_checked_at  |-> now ]

\* The record of "Schedule next check"; schedule is the row as the snapshot
\* has it.
NextCheckRecord(schedule) ==
    [ next_check_at    |-> now + IntervalHours(schedule) * HourMs,
      checks_remaining |-> schedule.checks_remaining - 1,
      last_checked_at  |-> now,
      total_checks     |-> schedule.total_checks + 1 ]

\* "Schedule next check": the update of the schedule; end of the iteration.
ScanUpdate(sc) ==
    /\ scan_pc[sc] = "update"
    /\ monitoring_schedule' = UpdateEqId(monitoring_schedule, CurSchedule(sc).id,
                                         NextCheckRecord(CurSchedule(sc)))
    /\ NextSchedule(sc)
    /\ UNCHANGED <<envVars, now, job_queue, nextId, pc, batch, processed, log, subVars>>

\* Twelve hours pass.  The platform ends an invocation long before that, so
\* no scan is in progress when they have.
HalfDayPasses ==
    /\ now \div (HalfDayHours * HourMs) < MaxHalfDays
    /\ \A sc \in Scans : scan_pc[sc] = "idle"
    /\ now' = now + HalfDayHours * HourMs
    /\ UNCHANGED <<envVars, job_queue, nextId, pc, batch, processed, log, subVars, monVars>>

\* A schedule that has r checks left of the thirty it was created with.
ScheduleAt(sid, hours, r) ==
    [ submission_id        |-> sid,
      is_active            |-> TRUE,
      next_check_at        |-> 0,
      check_interval_hours |-> hours,
      checks_remaining     |-> r,
      total_checks         |-> InitialChecks - r,
      last_checked_at      |-> NoTime ]

\* The submissions have a schedule each, due, with one or two checks left and
\* an interval that is unset or twelve hours; a submission is monitored, or
\* completed, or its row is gone.
InitMonitor ==
    /\ now = 0
    /\ job_queue = << >>
    /\ nextId = 1
    /\ pc = [w \in Workers |-> "idle"]
    /\ batch = [w \in Workers |-> << >>]
    /\ processed = [w \in Workers |-> 0]
    /\ log = [w \in Workers |-> << >>]
    /\ \E present \in SUBSET SubIds :
         submissions \in [present -> {[status |-> "monitoring"], [status |-> "completed"]}]
    /\ submission_captures = {}
    /\ review = [s \in SubIds |-> ""]
    /\ monitoring_schedule \in
         [SubIds -> {ScheduleAt(sid, hours, r) :
                        sid \in SubIds, hours \in {NULL, HalfDayHours}, r \in 1..2}]
    /\ \A sid \in SubIds : monitoring_schedule[sid].submission_id = sid
    /\ scan_pc = [sc \in Scans |-> "idle"]
    /\ scan_batch = [sc \in Scans |-> << >>]
    /\ request = [w \in Workers |-> NoRequest]
    /\ enqueued = NULL
    /\ env = AllConfigured

NextMonitor ==
    \/ \E sc \in Scans : ScanSelect(sc)
    \/ \E sc \in Scans : ScanFetch(sc)
    \/ \E sc \in Scans : ScanDeactivate(sc)
    \/ \E sc \in Scans, m \in 1..MaxMaxAttempts : ScanEnqueue(sc, m)
    \/ \E sc \in Scans : ScanUpdate(sc)
    \/ \E sid \in SubIds, status \in ReviewStatuses : ReviewBegin(sid, status)
    \/ \E sid \in SubIds : ReviewWrite(sid)
    \/ Tick
    \/ HalfDayPasses

SpecMonitor == InitMonitor /\ [][NextMonitor]_vars

\* A scan that can start does start, a scan that has started takes its
\* steps, and the clock advances.
ScanStep(sc) ==
    \/ ScanSelect(sc)
    \/ ScanFetch(sc)
    \/ ScanDeactivate(sc)
    \/ \E m \in 1..MaxMaxAttempts : ScanEnqueue(sc, m)
    \/ ScanUpdate(sc)

SpecMonitorFair ==
    /\ SpecMonitor
    /\ \A sc \in Scans : WF_vars(ScanStep(sc))
    /\ WF_vars(HalfDayPasses)

(***************************************************************************)
(* The capture task: jobs of every type, the review of the submission,     *)
(* and the queue-drain invocations that execute the jobs.                  *)
(***************************************************************************)
InitialCapture ==
    [type |-> "capture_submission", payload |-> CapturePayload(1, "initial"),
     options |-> [priority |-> 10, scheduledFor |-> NoTime]]

NextCapture ==
    \/ \E m \in 1..MaxMaxAttempts :
          enqueueJob(InitialCapture.type, InitialCapture.payload,
                     InitialCapture.options, m)
    \/ \E sid \in SubIds, m \in 1..MaxMaxAttempts : MonitorJobQueued(sid, m)
    \/ \E m \in 1..MaxMaxAttempts : InsertForeignJob(m)
    \/ \E sid \in SubIds, status \in ReviewStatuses : ReviewBegin(sid, status)
    \/ \E sid \in SubIds : ReviewWrite(sid)
    \/ \E w \in Workers : SelectPending(w)
    \/ \E w \in Workers : Claim(w)
    \/ \E w \in Workers : CaptureBegin(w)
    \/ \E w \in Workers : CaptureRecord(w)
    \/ \E w \in Workers : CaptureMonitoring(w)
    \/ \E w \in Workers : CaptureCaught(w)
    \/ \E w \in Workers : CaptureCaughtMonitoring(w)
    \/ \E w \in Workers : Complete(w)
    \/ \E w \in Workers : HandlerFails(w)

SpecCapture == Init /\ [][NextCapture]_vars

(***************************************************************************)
(* The producers' side alone: calls of enqueueJob, answered or refused by  *)
(* the store, as time passes.                                              *)
(***************************************************************************)
NextEnqueue ==
    \/ \E call \in EnqueueCalls, m \in 1..MaxMaxAttempts :
          enqueueJob(call.type, call.payload, call.options, m)
    \/ \E call \in EnqueueCalls :
          enqueueJobRefused(call.type, call.payload, call.options)
    \/ Tick

SpecEnqueue == Init /\ [][NextEnqueue]_vars

(***************************************************************************)
(* One worker, cycle after cycle: the cron trigger fires processJobQueue   *)
(* again when the cycle before has returned.                               *)
(***************************************************************************)
\* scheduled, cron "* * * * *": the next cycle of the worker starts.  Its
\* counter starts at 0; the worker's log goes on.
NextCycle(w) ==
    /\ pc[w] = "returned"
    /\ Len(log[w]) < MaxRuns
    /\ pc' = [pc EXCEPT ![w] = "idle"]
    /\ processed' = [processed EXCEPT ![w] = 0]
    /\ UNCHANGED <<envVars, now, job_queue, nextId, batch, log, subVars, monVars>>

NextSerial ==
    \/ \E call \in EnqueueCalls, m \in 1..MaxMaxAttempts :
          enqueueJob(call.type, call.payload, call.options, m)
    \/ \E w \in OneWorker : SelectPending(w)
    \/ \E w \in OneWorker : Claim(w)
    \/ \E w \in OneWorker : CaptureBegin(w)
    \/ \E w \in OneWorker : CaptureRecord(w)
    \/ \E w \in OneWorker : CaptureMonitoring(w)
    \/ \E w \in OneWorker : CaptureCaught(w)
    \/ \E w \in OneWorker : CaptureCaughtMonitoring(w)
    \/ \E w \in OneWorker : Complete(w)
    \/ \E w \in OneWorker : HandlerFails(w)
    \/ \E w \in OneWorker : NextCycle(w)
    \/ Tick

SpecSerial == Init /\ [][NextSerial]_vars

(***************************************************************************)
(* The same, for every way the screenshot bindings may be set or missing.  *)
(***************************************************************************)
InitConfig ==
    /\ now = 0
    /\ job_queue = << >>
    /\ nextId = 1
    /\ pc = [w \in Workers |-> "idle"]
    /\ batch = [w \in Workers |-> << >>]
    /\ processed = [w \in Workers |-> 0]
    /\ log = [w \in Workers |-> << >>]
    /\ submissions = [s \in SubIds |-> [status |-> "pending"]]
    /\ submission_captures = {}
    /\ review = [s \in SubIds |-> ""]
    /\ monitoring_schedule = << >>
    /\ scan_pc = [sc \in Scans |-> "idle"]
    /\ scan_batch = [sc \in Scans |-> << >>]
    /\ request = [w \in Workers |-> NoRequest]
    /\ enqueued = NULL
    /\ env \in [SCREENSHOT_API_URL : BOOLEAN, SCREENSHOT_API_KEY : BOOLEAN]

SpecConfig == InitConfig /\ [][NextSerial]_vars

(***************************************************************************)
(* Overlapping drain invocations, enqueues and the retention sweep.        *)
(***************************************************************************)
NextLocks ==
    \/ \E m \in 1..MaxMaxAttempts :
          enqueueJob(InitialCapture.type, InitialCapture.payload,
                     InitialCapture.options, m)
    \/ \E w \in Workers : SelectPending(w)
    \/ \E w \in Workers : Claim(w)
    \/ \E w \in Workers : CaptureBegin(w)
    \/ \E w \in Workers : CaptureRecord(w)
    \/ \E w \in Workers : CaptureMonitoring(w)
    \/ \E w \in Workers : CaptureCaught(w)
    \/ \E w \in Workers : CaptureCaughtMonitoring(w)
    \/ \E w \in Workers : Complete(w)
    \/ \E w \in Workers : HandlerFails(w)
    \/ cleanupOldJobs
    \/ DayPasses

SpecLocks == Init /\ [][NextLocks]_vars

(***************************************************************************)
(* Drain cycles that keep firing, one after the other, while time keeps    *)
(* advancing: an invocation that returned leaves its slot to the next      *)
(* firing of the cron trigger.                                             *)
(***************************************************************************)
\* The invocation w is over; the next firing of "* * * * *" runs in its slot.
CycleEnds(w) ==
    /\ pc[w] = "returned"
    /\ pc' = [pc EXCEPT ![w] = "idle"]
    /\ processed' = [processed EXCEPT ![w] = 0]
    /\ log' = [log EXCEPT ![w] = << >>]
    /\ UNCHANGED <<envVars, now, job_queue, nextId, batch, subVars, monVars>>

\* A minute passes.  (Only the minutes some job is waiting for are counted:
\* the clock matters to the queue through scheduled_for alone.)
MinutePasses ==
    /\ \E id \in Rows : /\ job_queue[id].status = "pending"
                         /\ job_queue[id].scheduled_for > now
    /\ now' = now + MinuteMs
    /\ UNCHANGED <<envVars, job_queue, nextId, pc, batch, processed, log, subVars, monVars>>

\* The steps of the invocation that runs in the slot w.
WorkerStep(w) ==
    \/ SelectPending(w)
    \/ Claim(w)
    \/ CaptureBegin(w)
    \/ CaptureRecord(w)
    \/ CaptureMonitoring(w)
    \/ CaptureCaught(w)
    \/ CaptureCaughtMonitoring(w)
    \/ Complete(w)
    \/ HandlerFails(w)
    \/ CycleEnds(w)

NextLive ==
    \/ \E call \in EnqueueCalls, m \in 1..MaxMaxAttempts :
          enqueueJob(call.type, call.payload, call.options, m)
    \/ \E w \in OneWorker : SelectPending(w)
    \/ \E w \in OneWorker : Claim(w)
    \/ \E w \in OneWorker : CaptureBegin(w)
    \/ \E w \in OneWorker : CaptureRecord(w)
    \/ \E w \in OneWorker : CaptureMonitoring(w)
    \/ \E w \in OneWorker : CaptureCaught(w)
    \/ \E w \in OneWorker : CaptureCaughtMonitoring(w)
    \/ \E w \in OneWorker : Complete(w)
    \/ \E w \in OneWorker : HandlerFails(w)
    \/ \E w \in OneWorker : CycleEnds(w)
    \/ MinutePasses

\* Every invocation takes its steps, the cron trigger keeps firing, and the
\* clock advances.
SpecLive ==
    /\ Init /\ [][NextLive]_vars
    /\ \A w \in OneWorker : WF_vars(WorkerStep(w))
    /\ WF_vars(MinutePasses)

(***************************************************************************)
(* The fetch handler, POST /trigger: requests run drain cycles.            *)
(***************************************************************************)
NextTrigger ==
    \/ \E call \in EnqueueCalls, m \in 1..MaxMaxAttempts :
          enqueueJob(call.type, call.payload, call.options, m)
    \/ \E w \in Workers, h \in Headers : Trigger(w, h)
    \/ \E w \in Workers : SelectPending(w)
    \/ \E w \in Workers : SelectNotOk(w)
    \/ \E w \in Workers : SelectThrows(w)
    \/ \E w \in Workers : Claim(w)
    \/ \E w \in Workers : ClaimError(w)
    \/ \E w \in Workers : CaptureBegin(w)
    \/ \E w \in Workers : CaptureRecord(w)
    \/ \E w \in Workers : CaptureMonitoring(w)
    \/ \E w \in Workers : CaptureCaught(w)
    \/ \E w \in Workers : CaptureCaughtMonitoring(w)
    \/ \E w \in Workers : Complete(w)
    \/ \E w \in Workers : HandlerFails(w)

SpecTrigger == Init /\ [][NextTrigger]_vars

(***************************************************************************)
(* One drain cycle over a table that holds more eligible rows than the     *)
(* query's limit.                                                          *)
(***************************************************************************)
\* Rows of the table: one more eligible row than the limit, and one row that
\* is not due.
BatchRows == BatchLimit + 2

\* The priorities the producers give: enqueueJob's default, the monitoring
\* scan's, the initial capture's.
Priorities == <<0, MonitorPriority, 10>>

\* The row id of the table of shape k: the keys differ from shape to shape,
\* some rows tie on both keys, row 1 is a capture job (its handler may fail),
\* the last row is due a minute from now.
BatchRow(id, k) ==
    NewJob(IF id = 1 THEN "capture_submission" ELSE "send_email",
           IF id = 1 THEN CapturePayload(1, "initial") ELSE NoPayload,
           Priorities[((id + k) % 3) + 1],
           IF id = BatchRows THEN now + MinuteMs
           ELSE now - (((id * k) % (BatchLimit + 1)) \div 2) * MinuteMs,
           (id % MaxMaxAttempts) + 1)

InitBatch ==
    /\ now = BatchRows * MinuteMs
    /\ \E k \in 1..3 : job_queue = [id \in 1..BatchRows |-> BatchRow(id, k)]
    /\ nextId = BatchRows + 1
    /\ pc = [w \in Workers |-> "idle"]
    /\ batch = [w \in Workers |-> << >>]
    /\ processed = [w \in Workers |-> 0]
    /\ log = [w \in Workers |-> << >>]
    /\ submissions = [s \in SubIds |-> [status |-> "pending"]]
    /\ submission_captures = {}
    /\ review = [s \in SubIds |-> ""]
    /\ monitoring_schedule = << >>
    /\ scan_pc = [sc \in Scans |-> "idle"]
    /\ scan_batch = [sc \in Scans |-> << >>]
    /\ request = [w \in Workers |-> NoRequest]
    /\ enqueued = NULL
    /\ env = AllConfigured

NextBatch ==
    \/ \E w \in OneWorker, h \in Headers : Trigger(w, h)
    \/ \E w \in OneWorker : SelectPending(w)
    \/ \E w \in OneWorker : Claim(w)
    \/ \E w \in OneWorker : ClaimError(w)
    \/ \E w \in OneWorker : CaptureBegin(w)
    \/ \E w \in OneWorker : CaptureRecord(w)
    \/ \E w \in OneWorker : CaptureMonitoring(w)
    \/ \E w \in OneWorker : CaptureCaught(w)
    \/ \E w \in OneWorker : CaptureCaughtMonitoring(w)
    \/ \E w \in OneWorker : Complete(w)
    \/ \E w \in OneWorker : HandlerFails(w)

SpecBatch == InitBatch /\ [][NextBatch]_vars

(***************************************************************************)
(* Properties.                                                             *)
(***************************************************************************)

\* The worker w is inside the handler of the job with this id.
Executing(w, id) == pc[w] \in HandlerPcs /\ Cur(w).id = id

\* C1: a claim update that lets its worker into the handler was issued on a
\* row that was pending and unlocked when the store applied it; of two
\* workers that claim the same pending job, the second one therefore skips.
C1_OnlyPendingUnlockedIsClaimed ==
    [][\A w \in Workers :
         (pc[w] = "claim" /\ pc'[w] = "exec") =>
            /\ Cur(w).id \in Rows
            /\ job_queue[Cur(w).id].status = "pending"
            /\ job_queue[Cur(w).id].locked_by = NULL]_vars

\* C2: at most one worker is inside the handler of a job, and while it is,
\* the row is processing and locked by that worker.
C2_ExecutedOnlyWhileHeld ==
    \A w \in Workers :
        pc[w] \in HandlerPcs =>
            /\ Cur(w).id \in Rows
            /\ job_queue[Cur(w).id].status = "processing"
            /\ job_queue[Cur(w).id].locked_by = w
            /\ \A v \in Workers \ {w} : ~Executing(v, Cur(w).id)

\* C3: every change of a row's status is pending -> processing,
\* processing -> completed, processing -> pending or processing -> failed.
StatusTransitions ==
    { <<"pending", "processing">>, <<"processing", "completed">>,
      <<"processing", "pending">>, <<"processing", "failed">> }

C3_StatusTransitions ==
    [][\A id \in Rows :
         (id \in DOMAIN job_queue' /\ job_queue'[id].status # job_queue[id].status)
            => <<job_queue[id].status, job_queue'[id].status>> \in StatusTransitions]_vars

\* C4: a handler failure with attempts + 1 < max_attempts (attempts as the
\* snapshot has it) leaves the job's row pending, unlocked, with an error
\* message and a scheduled_for later than the time of the failure.
C4_RetryReturnsToPending ==
    [][\A w \in Workers :
         ( /\ HandlerFails(w)
           /\ Cur(w).attempts + 1 < Cur(w).max_attempts
           /\ Cur(w).id \in Rows )
         => /\ Cur(w).id \in DOMAIN job_queue'
            /\ job_queue'[Cur(w).id].status = "pending"
            /\ job_queue'[Cur(w).id].locked_by = NULL
            /\ job_queue'[Cur(w).id].error_message # ""
            /\ job_queue'[Cur(w).id].scheduled_for > now]_vars

\* C4, its case: a worker logged a failure and the job waits, rescheduled.
C4_Witness ==
    \E w \in Workers : \E i \in 1..Len(log[w]) :
        /\ log[w][i].what = "Failed"
        /\ log[w][i].id \in Rows
        /\ job_queue[log[w][i].id].status = "pending"
        /\ job_queue[log[w][i].id].attempts = 1
        /\ job_queue[log[w][i].id].error_message # ""
        /\ job_queue[log[w][i].id].scheduled_for > now

\* C5: a handler failure with attempts + 1 >= max_attempts leaves the row
\* failed, unlocked, with an error message, and a failed row is never claimed
\* (and so never executed) again.
C5_FailedIsTerminal ==
    [][\A w \in Workers :
         /\ ( /\ HandlerFails(w)
              /\ Cur(w).attempts + 1 >= Cur(w).max_attempts
              /\ Cur(w).id \in Rows )
            => /\ job_queue'[Cur(w).id].status = "failed"
               /\ job_queue'[Cur(w).id].locked_by = NULL
               /\ job_queue'[Cur(w).id].error_message # ""
         /\ (pc[w] = "claim" /\ pc'[w] = "exec" /\ Cur(w).id \in Rows)
            => job_queue[Cur(w).id].status # "failed"]_vars

\* C6: the eligible-jobs query answers only with rows that are, when it is
\* asked, pending, due (scheduled_for <= now) and unlocked.
C6_SelectionIsEligible ==
    [][\A w \in Workers :
         (pc[w] = "idle" /\ pc'[w] = "claim") =>
            \A i \in 1..Len(batch'[w]) :
                /\ batch'[w][i].id \in Rows
                /\ job_queue[batch'[w][i].id].status = "pending"
                /\ job_queue[batch'[w][i].id].scheduled_for <= now
                /\ job_queue[batch'[w][i].id].locked_by = NULL]_vars

\* C6, its case: a cycle got a batch while another row, not yet due, was
\* left out of it.
C6_Witness ==
    \E w \in Workers :
        /\ pc[w] = "claim"
        /\ log[w] = << >>
        /\ \E id \in Rows :
            /\ job_queue[id].status = "pending"
            /\ job_queue[id].scheduled_for > now
            /\ \A i \in 1..Len(batch[w]) : batch[w][i].id # id

\* C7: a worker enters a job's handler only at a time that is not earlier
\* than the scheduled_for the row then holds.
C7_NotExecutedBeforeScheduledFor ==
    [][\A w \in Workers :
         (pc[w] = "claim" /\ pc'[w] = "exec" /\ Cur(w).id \in Rows)
            => job_queue'[Cur(w).id].scheduled_for <= now]_vars

\* C8: after the handler returned, the row is completed, completed_at is
\* stamped and the lock cleared; a completed row is never claimed (and so
\* never executed) again.
C8_CompletedIsTerminal ==
    [][\A w \in Workers :
         /\ (Complete(w) /\ Cur(w).id \in Rows)
            => /\ job_queue'[Cur(w).id].status = "completed"
               /\ job_queue'[Cur(w).id].completed_at = now
               /\ job_queue'[Cur(w).id].locked_by = NULL
         /\ (pc[w] = "claim" /\ pc'[w] = "exec" /\ Cur(w).id \in Rows)
            => job_queue[Cur(w).id].status # "completed"]_vars

\* C9: a handler failure changes the row of its job only, does not end the
\* cycle, and does not reach the caller: the loop goes on with the next job
\* of the batch, or returns `processed` when there is none.
C9_HandlerFailureIsContained ==
    [][\A w \in Workers :
         pc[w] \in HandlerPcs =>
            /\ pc'[w] \in HandlerPcs \cup {"dead", "claim", "returned"}
            /\ HandlerFails(w) =>
                /\ batch'[w] = Tail(batch[w])
                /\ pc'[w] = IF batch'[w] = << >> THEN "returned" ELSE "claim"
                /\ processed'[w] = processed[w]
                /\ \A id \in Rows \ {Cur(w).id} :
                     id \in DOMAIN job_queue' /\ job_queue'[id] = job_queue[id]]_vars

\* C9, its case: a cycle whose first job failed went on to complete its
\* second job and returned its count.
C9_Witness ==
    \E w \in Workers :
        /\ pc[w] = "returned"
        /\ Len(log[w]) = 2
        /\ log[w][1].what = "Failed"
        /\ log[w][2].what = "Completed"
        /\ processed[w] = 1

\* C10: the job of a worker that died inside its handler, processing and
\* locked, stays processing and locked: nothing claims it, resets it or
\* deletes it.
C10_OrphanStaysProcessing ==
    [][\A w \in Workers :
         ( /\ pc[w] = "dead"
           /\ Cur(w).id \in Rows
           /\ job_queue[Cur(w).id].status = "processing"
           /\ job_queue[Cur(w).id].locked_by = w )
         => /\ Cur(w).id \in DOMAIN job_queue'
            /\ job_queue'[Cur(w).id].status = "processing"
            /\ job_queue'[Cur(w).id].locked_by = w]_vars

\* C11: a job whose type the switch has no case for is handled as a success
\* the first time it is claimed: the step that leaves its handler marks the
\* row completed and unlocked and counts it in `processed`, and no step ever
\* marks such a row failed or sends it back to pending.
C11_UnknownTypeCompletes ==
    [][/\ \A w \in Workers :
           ( /\ pc[w] = "exec"
             /\ Cur(w).job_type \notin CaptureTypes \cup LoggedTypes
             /\ pc'[w] # "exec" )
           => /\ pc'[w] \in {"claim", "returned"}
              /\ processed'[w] = processed[w] + 1
              /\ log'[w][Len(log'[w])].what = "Completed"
              /\ Cur(w).id \in Rows =>
                    /\ job_queue'[Cur(w).id].status = "completed"
                    /\ job_queue'[Cur(w).id].locked_by = NULL
       /\ \A id \in Rows :
           ( /\ job_queue[id].job_type \notin CaptureTypes \cup LoggedTypes
             /\ id \in DOMAIN job_queue' )
           => /\ job_queue'[id].status # "failed"
              /\ job_queue'[id].status = "pending"
                    => job_queue[id].status = "pending"]_vars

\* C11, its case: a cycle returned after it completed, on the first attempt,
\* a job of a type without a case.
C11_Witness ==
    \E w \in Workers : \E id \in Rows :
        /\ pc[w] = "returned"
        /\ processed[w] >= 1
        /\ \E i \in 1..Len(log[w]) : log[w][i] = [id |-> id, what |-> "Completed"]
        /\ job_queue[id].job_type = "generate_report"
        /\ job_queue[id].status = "completed"
        /\ job_queue[id].attempts = 1
        /\ job_queue[id].locked_by = NULL

\* The capture rows the run of the job the loop of w is at has inserted.
RunRows(w) == {r \in submission_captures : r.run = <<w, Len(log[w])>>}

\* C12: an initial capture without error: step 1 leaves the submission
\* capturing, the last step leaves it monitoring, and from the insert on the
\* run has exactly one capture row, is_live true with a screenshot_url, and
\* no is_live false row.
C12_InitialCaptureSucceeds ==
    [][\A w \in Workers :
         LET sid == Cur(w).payload.submission_id IN
         (pc[w] \in HandlerPcs /\ Cur(w).payload.capture_type = "initial") =>
            /\ (pc[w] = "exec" /\ pc'[w] = "capturing" /\ sid \in DOMAIN submissions)
                  => /\ submissions'[sid].status = "capturing"
                     /\ {r \in submission_captures' : r.run = <<w, Len(log[w])>>} = {}
            /\ (pc[w] = "capturing" /\ pc'[w] = "recorded")
                  => \E r \in submission_captures' :
                        /\ {x \in submission_captures' : x.run = <<w, Len(log[w])>>} = {r}
                        /\ r.submission_id = sid
                        /\ r.capture_type = "initial"
                        /\ r.is_live = TRUE
                        /\ r.screenshot_url # << >>
            /\ (pc[w] = "recorded" /\ pc'[w] # "recorded")
                  => /\ pc'[w] = "ok"
                     /\ sid \in DOMAIN submissions => submissions'[sid].status = "monitoring"
                     /\ submission_captures' = submission_captures
            /\ (pc[w] = "ok" /\ pc'[w] # "ok")
                  => /\ submission_captures' = submission_captures
                     /\ submissions' = submissions
                     /\ log'[w][Len(log'[w])].what = "Completed"]_vars

\* C12, its case: an initial capture returned; the submission is monitoring
\* and the run has one live capture row.
C12_Witness ==
    \E w \in Workers :
        /\ pc[w] = "ok"
        /\ Cur(w).payload.capture_type = "initial"
        /\ StatusOf(Cur(w).payload.submission_id) = "monitoring"
        /\ Cardinality(RunRows(w)) = 1
        /\ \A r \in RunRows(w) : r.is_live

\* C13: an initial capture that throws after step 1: the catch block inserts
\* exactly one capture row for the run, is_live false with an error message,
\* leaves the submission monitoring, and rethrows: the invocation's catch
\* block then marks the job failed or reschedules it.
C13_InitialCaptureFails ==
    [][\A w \in Workers :
         LET sid == Cur(w).payload.submission_id IN
         (pc[w] \in HandlerPcs /\ Cur(w).payload.capture_type = "initial") =>
            /\ (pc[w] = "capturing" /\ pc'[w] \notin {"capturing", "recorded"})
                  => /\ pc'[w] = "caught"
                     /\ \E r \in submission_captures' :
                          /\ {x \in submission_captures' : x.run = <<w, Len(log[w])>>} = {r}
                          /\ r.submission_id = sid
                          /\ r.is_live = FALSE
                          /\ r.error_message # ""
            /\ (pc[w] = "caught" /\ pc'[w] # "caught")
                  => /\ pc'[w] = "err"
                     /\ sid \in DOMAIN submissions => submissions'[sid].status = "monitoring"
                     /\ submission_captures' = submission_captures
            /\ (pc[w] = "err" /\ pc'[w] # "err")
                  => /\ pc'[w] \in {"claim", "returned"}
                     /\ submission_captures' = submission_captures
                     /\ submissions' = submissions
                     /\ processed'[w] = processed[w]
                     /\ log'[w][Len(log'[w])].what = "Failed"
                     /\ Cur(w).id \in Rows =>
                          /\ job_queue'[Cur(w).id].status =
                                IF Cur(w).attempts + 1 >= Cur(w).max_attempts
                                THEN "failed" ELSE "pending"
                          /\ job_queue'[Cur(w).id].error_message # ""]_vars

\* C13, its case: an initial capture threw; the submission is monitoring and
\* the run has one capture row, not live.
C13_Witness ==
    \E w \in Workers :
        /\ pc[w] = "err"
        /\ Cur(w).payload.capture_type = "initial"
        /\ StatusOf(Cur(w).payload.submission_id) = "monitoring"
        /\ Cardinality(RunRows(w)) = 1
        /\ \A r \in RunRows(w) : ~r.is_live /\ r.error_message # ""

\* C14: a scheduled capture that throws leaves the submission with the
\* status it had when the task started.  Stated for the first capture task
\* that ever ran (the first job of the only invocation started so far):
\* nothing wrote `capturing` before it, so the submission was not capturing
\* when it started, and is not capturing when it has thrown.
C14_ScheduledFailureKeepsStatus ==
    \A w \in Workers :
        ( /\ pc[w] = "err"
          /\ Cur(w).payload.capture_type = "scheduled"
          /\ log[w] = << >>
          /\ \A v \in Workers \ {w} : pc[v] = "idle" )
        => StatusOf(Cur(w).payload.submission_id) # "capturing"

\* C15: the status of a submission that is approved, rejected or completed
\* is changed by a review only, never by a step of the worker.
C15_TerminalStatusKept ==
    [][\A sid \in DOMAIN submissions :
         ( /\ submissions[sid].status \in TerminalStatuses
           /\ sid \in DOMAIN submissions'
           /\ submissions'[sid].status # submissions[sid].status )
         => review[sid] # "" /\ review'[sid] = ""]_vars

\* C16: a scan that is at a due schedule whose submission is missing,
\* approved, rejected or completed goes to the deactivation; the deactivation
\* sets is_active false on that schedule and changes nothing else of it
\* (next_check_at, checks_remaining, total_checks), nothing of another
\* schedule, and inserts no job.
C16_FinishedIsDeactivated ==
    [][\A sc \in Scans :
         LET sch == CurSchedule(sc) IN
         /\ ( /\ scan_pc[sc] = "fetch"
              /\ scan_pc'[sc] # "fetch"
              /\ \/ sch.submission_id \notin DOMAIN submissions
                 \/ submissions[sch.submission_id].status
                        \in {"approved", "rejected", "completed"} )
            => /\ scan_pc'[sc] = "deactivate"
               /\ job_queue' = job_queue
               /\ monitoring_schedule' = monitoring_schedule
         /\ (scan_pc[sc] = "deactivate" /\ scan_pc'[sc] # "deactivate")
            => /\ job_queue' = job_queue
               /\ DOMAIN monitoring_schedule' = Schedules
               /\ \A id \in Schedules :
                    monitoring_schedule'[id] =
                        IF id = sch.id
                        THEN [monitoring_schedule[id] EXCEPT !.is_active = FALSE]
                        ELSE monitoring_schedule[id]]_vars

\* C16, its case: the schedule of a submission whose row is gone is
\* inactive, was never checked, and no job was inserted.
C16_Witness ==
    \E id \in Schedules :
        /\ monitoring_schedule[id].submission_id \notin DOMAIN submissions
        /\ ~monitoring_schedule[id].is_active
        /\ monitoring_schedule[id].last_checked_at = NoTime
        /\ monitoring_schedule[id].next_check_at = 0
        /\ monitoring_schedule[id].checks_remaining + monitoring_schedule[id].total_checks
              = InitialChecks
        /\ job_queue = << >>
        /\ \A sc \in Scans : scan_pc[sc] = "idle"

\* C17: for a schedule of its snapshot (active, with checks left, due) whose
\* submission it found monitored, the scan inserts exactly one job
\* (monitor_submission, capture_type scheduled, priority 5) and then writes
\* next_check_at = now + check_interval_hours hours (24 when unset),
\* checks_remaining one less and total_checks one more than it read.
C17_DueScheduleIsChecked ==
    [][\A sc \in Scans :
         LET sch == CurSchedule(sc) IN
         /\ (scan_pc[sc] = "fetch" /\ scan_pc'[sc] = "enqueue")
            => /\ sch.checks_remaining > 0
               /\ StatusOf(sch.submission_id) \notin {"", "approved", "rejected", "completed"}
               /\ job_queue' = job_queue
         /\ (scan_pc[sc] = "enqueue" /\ scan_pc'[sc] # "enqueue")
            => /\ scan_pc'[sc] = "update"
               /\ monitoring_schedule' = monitoring_schedule
               /\ \E id \in DOMAIN job_queue' \ Rows :
                    /\ DOMAIN job_queue' = Rows \cup {id}
                    /\ \A r \in Rows : job_queue'[r] = job_queue[r]
                    /\ job_queue'[id].job_type = "monitor_submission"
                    /\ job_queue'[id].payload =
                          [submission_id |-> sch.submission_id, capture_type |-> "scheduled"]
                    /\ job_queue'[id].priority = 5
                    /\ job_queue'[id].status = "pending"
         /\ (scan_pc[sc] = "update" /\ scan_pc'[sc] # "update" /\ sch.id \in Schedules)
            => /\ job_queue' = job_queue
               /\ monitoring_schedule'[sch.id].next_check_at =
                     now + HourMs * (IF sch.check_interval_hours = NULL
                                     THEN 24 ELSE sch.check_interval_hours)
               /\ monitoring_schedule'[sch.id].checks_remaining = sch.checks_remaining - 1
               /\ monitoring_schedule'[sch.id].total_checks = sch.total_checks + 1
               /\ monitoring_schedule'[sch.id].is_active = monitoring_schedule[sch.id].is_active
               /\ \A id \in Schedules \ {sch.id} :
                    monitoring_schedule'[id] = monitoring_schedule[id]]_vars

\* C17, its case: a schedule without an interval was checked once: one job
\* waits, the next check is 24 hours after the check, one check less is left.
C17_Witness ==
    \E id \in Schedules :
        /\ monitoring_schedule[id].check_interval_hours = NULL
        /\ monitoring_schedule[id].last_checked_at # NoTime
        /\ monitoring_schedule[id].next_check_at
              = monitoring_schedule[id].last_checked_at + 24 * HourMs
        /\ monitoring_schedule[id].checks_remaining = 1
        /\ monitoring_schedule[id].total_checks = InitialChecks - 1
        /\ Cardinality(Rows) = 1
        /\ \A j \in Rows :
             /\ job_queue[j].job_type = "monitor_submission"
             /\ job_queue[j].payload.capture_type = "scheduled"
             /\ job_queue[j].priority = 5
        /\ \A sc \in Scans : scan_pc[sc] = "idle"

\* C18: a schedule whose checks_remaining is 0 is, then or some scan later,
\* inactive.  Stated for a schedule whose next check has come due again, so
\* that scans have run since the one that took the last check.
C18_ExhaustedIsDeactivated ==
    \A id \in SubIds :
        ( /\ monitoring_schedule[id].checks_remaining = 0
          /\ monitoring_schedule[id].next_check_at <= now )
            ~> (monitoring_schedule[id].is_active = FALSE)

\* C19: no step raises the checks_remaining of a schedule or makes it
\* negative, with scans that overlap.
C19_ChecksRemainingDecreases ==
    [][\A id \in Schedules :
         id \in DOMAIN monitoring_schedule' =>
            /\ monitoring_schedule'[id].checks_remaining
                  <= monitoring_schedule[id].checks_remaining
            /\ monitoring_schedule'[id].checks_remaining >= 0]_vars

\* C19, its case: two scans hold the same schedule in their snapshots; one
\* has written its update, the other is about to write its own.
C19_Witness ==
    \E sc, other \in Scans :
        /\ sc # other
        /\ scan_pc[sc] = "update"
        /\ scan_pc[other] = "idle"
        /\ CurSchedule(sc).id \in Schedules
        /\ monitoring_schedule[CurSchedule(sc).id].checks_remaining
              = CurSchedule(sc).checks_remaining - 1
        /\ monitoring_schedule[CurSchedule(sc).id].last_checked_at # NoTime

\* C20: the sweep deletes exactly the rows that are completed or failed and
\* were created more than 7 days before it runs; every other row (younger,
\* or pending, or processing) is kept as it is.
C20_SweepDeletesOldFinishedJobs ==
    [][cleanupOldJobs =>
         /\ DOMAIN job_queue' \subseteq Rows
         /\ \A id \in Rows :
              IF /\ job_queue[id].status \in {"completed", "failed"}
                 /\ now - job_queue[id].created_at > 7 * DayMs
              THEN id \notin DOMAIN job_queue'
              ELSE id \in DOMAIN job_queue' /\ job_queue'[id] = job_queue[id]]_vars

\* C20, its case: a row was deleted, a completed row that is 6 days old was
\* kept.
C20_Witness ==
    /\ Cardinality(Rows) < nextId - 1
    /\ \E id \in Rows :
         /\ job_queue[id].status = "completed"
         /\ now - job_queue[id].created_at = 6 * DayMs

\* C21: the delay of a retry is 2^attempts * base, attempts being the value
\* of the snapshot (before the claim's increment): the first retry of a job
\* waits base, and a retry of a job that was retried before waits longer
\* than that, at least twice as long.
C21_BackoffGrows ==
    [][\A w \in Workers :
         ( /\ HandlerFails(w)
           /\ Cur(w).attempts + 1 < Cur(w).max_attempts
           /\ Cur(w).id \in Rows )
         => LET delay == job_queue'[Cur(w).id].scheduled_for - now IN
            /\ delay = Pow2(Cur(w).attempts) * 60000
            /\ job_queue[Cur(w).id].error_message = "" => delay = 60000
            /\ job_queue[Cur(w).id].error_message # "" => delay >= 2 * 60000]_vars

\* C26: a claim attempted on a job that is no longer pending and unlocked
\* (or that was deleted) leaves the job table as it was; the worker does not
\* run the handler for it and goes on with the next job of its batch.
C26_LostClaimLeavesRow ==
    [][\A w \in Workers :
         ( /\ pc[w] = "claim"
           /\ pc'[w] # "claim" \/ batch'[w] # batch[w]
           /\ IF Cur(w).id \in Rows
                 THEN \/ job_queue[Cur(w).id].status # "pending"
                      \/ job_queue[Cur(w).id].locked_by # NULL
                 ELSE TRUE )
         => /\ job_queue' = job_queue
            /\ pc'[w] \in {"claim", "returned"}
            /\ batch'[w] = Tail(batch[w])]_vars

\* The number of times the handler was started for the job id: the invocations
\* inside its try block (or killed there) and the outcomes already logged.
Starts(id) ==
    Cardinality({w \in Workers :
                   pc[w] \in HandlerPcs \cup {"dead"} /\ Cur(w).id = id})
    + Cardinality({e \in UNION {{<<w, i>> : i \in DOMAIN log[w]} : w \in Workers} :
                     /\ log[e[1]][e[2]].what \in {"Completed", "Failed"}
                     /\ log[e[1]][e[2]].id = id})

\* C27: the stored attempts of a job is the number of times its handler has
\* been started, under any interleaving of invocations.
C27_AttemptsCountStarts ==
    \A id \in Rows : job_queue[id].attempts = Starts(id)

\* The ids of the rows that pass the query's filter (written out).
DueRows ==
    {id \in Rows : /\ job_queue[id].status = "pending"
                   /\ job_queue[id].scheduled_for <= now
                   /\ job_queue[id].locked_by = NULL}

\* Row a ranks strictly ahead of row b: higher priority, or the same priority
\* and an earlier scheduled_for.
Ahead(a, b) ==
    \/ job_queue[a].priority > job_queue[b].priority
    \/ /\ job_queue[a].priority = job_queue[b].priority
       /\ job_queue[a].scheduled_for < job_queue[b].scheduled_for

\* C22: a drain cycle selects at most 10 jobs, the first 10 of the eligible
\* rows by priority descending then scheduled_for ascending, and handles them
\* in that order; no other row is touched by the cycle.
C22_BatchOfTenInOrder ==
    [][\A w \in Workers :
         /\ (pc[w] \in {"idle", "trigger"} /\ batch'[w] # << >>) =>
               LET b == batch'[w] IN
               /\ Len(b) <= 10
               /\ Len(b) = 10 \/ Len(b) = Cardinality(DueRows)
               /\ \A i \in 1..Len(b) : b[i].id \in DueRows
               /\ \A i, k \in 1..Len(b) : i < k =>
                      b[i].id # b[k].id /\ ~Ahead(b[k].id, b[i].id)
               /\ \A id \in DueRows :
                      (\A i \in 1..Len(b) : b[i].id # id) =>
                          \A i \in 1..Len(b) : ~Ahead(id, b[i].id)
         /\ (pc[w] \notin {"idle", "trigger"} /\ batch[w] # << >>) =>
               /\ batch'[w] \in {batch[w], Tail(batch[w])}
               /\ \A id \in Rows \ {Cur(w).id} :
                      id \in DOMAIN job_queue' /\ job_queue'[id] = job_queue[id]
         /\ (pc[w] \notin {"idle", "trigger"} /\ batch[w] = << >>)
               => job_queue' = job_queue]_vars

\* Ten jobs were handled, in the order of the answer, and the eleventh
\* eligible row is as it was.
C22_Witness ==
    /\ pc[1] = "returned"
    /\ Len(log[1]) = 10
    /\ \A i \in 1..10 : log[1][i].what \in {"Completed", "Failed"}
    /\ \E i \in 1..10 : log[1][i].what = "Failed"
    /\ \E id \in DueRows : job_queue[id].attempts = 0 /\ job_queue[id].locked_at = NoTime

\* C23: a POST /trigger whose Authorization header is not
\* 'Bearer <service credential>' (or is missing) is answered 401 and neither
\* reads nor writes the job store; one whose header matches runs exactly one
\* drain cycle, and is answered {success: true, processed} when the cycle
\* has returned.
C23_TriggerNeedsCredential ==
    [][\A w \in Workers :
         /\ \A h \in Headers :
               Trigger(w, h) =>
                  IF h = "Bearer service-key"
                  THEN pc'[w] = "trigger" /\ Response(w)' = NoResponse
                  ELSE /\ Response(w)'.status = 401
                       /\ job_queue' = job_queue
                       /\ batch'[w] = << >>
         /\ (request[w].trigger /\ request[w].Authorization # "Bearer service-key")
               => /\ pc'[w] = pc[w]
                  /\ batch'[w] = << >> /\ log'[w] = << >> /\ processed'[w] = 0
         /\ (request[w].trigger /\ request[w].Authorization = "Bearer service-key")
               => /\ pc[w] = "trigger" => pc'[w] \in {"trigger", "claim", "returned", "threw"}
                  /\ pc[w] \notin {"idle", "trigger"} =>
                        /\ pc'[w] \notin {"idle", "trigger"}
                        /\ IF batch[w] = << >> THEN batch'[w] = << >>
                           ELSE batch'[w] \in {batch[w], Tail(batch[w])}
                  /\ Response(w)' # NoResponse =>
                        \/ /\ pc'[w] = "returned"
                           /\ batch'[w] = << >>
                           /\ Response(w)' = [status |-> 200, success |-> TRUE,
                                               processed |-> processed'[w]]
                        \/ pc'[w] = "threw" /\ Response(w)'.status = 500]_vars

\* One request was refused, and another one ran a cycle that handled a job.
C23_Witness ==
    \E w, v \in Workers :
        /\ Response(w).status = 401
        /\ Response(v).status = 200
        /\ Response(v).processed = 1

\* C24: an authorized POST /trigger is answered 500 {success: false, error}
\* when the eligible-jobs query of its cycle fails (it is answered with an
\* error, or the request to the store fails) while jobs are waiting, and a
\* handler failure never makes the response a failure.
C24_QueryFailureIsReported ==
    [][\A w \in Workers :
         /\ ( /\ request[w].trigger
              /\ DueRows # {}
              /\ SelectNotOk(w) \/ SelectThrows(w) )
               => ( /\ Response(w)'.status = 500
                    /\ ~Response(w)'.success )
         /\ (request[w].trigger /\ HandlerFails(w))
               => Response(w)'.status \in {0, 200}]_vars

\* C25: a call of enqueueJob that the store accepts adds exactly one row and
\* returns its id; the row carries the given type and payload, the given
\* priority (0 when none is given) and scheduledFor (the present time when
\* none is given), and is pending and unlocked.  A call the store refuses
\* returns null and adds no row.
C25_EnqueueInsertsOneRow ==
    [][\A call \in EnqueueCalls :
         /\ \A m \in 1..MaxMaxAttempts :
               enqueueJob(call.type, call.payload, call.options, m) =>
                  /\ enqueued' # NULL
                  /\ enqueued' \notin DOMAIN job_queue
                  /\ DOMAIN job_queue' = DOMAIN job_queue \cup {enqueued'}
                  /\ \A id \in DOMAIN job_queue : job_queue'[id] = job_queue[id]
                  /\ LET row == job_queue'[enqueued'] IN
                     /\ row.job_type = call.type
                     /\ row.payload = call.payload
                     /\ row.priority = IF call.options.priority = NULL THEN 0
                                       ELSE call.options.priority
                     /\ row.scheduled_for = IF call.options.scheduledFor = NoTime THEN now
                                            ELSE call.options.scheduledFor
                     /\ row.status = "pending"
                     /\ row.locked_by = NULL
         /\ enqueueJobRefused(call.type, call.payload, call.options) =>
               enqueued' = NULL /\ job_queue' = job_queue]_vars

\* A call with a priority and no scheduledFor and a call with a scheduledFor
\* and no priority were accepted, at different times, and a later call was
\* refused.
C25_Witness ==
    /\ enqueued = NULL
    /\ \E id \in Rows : /\ job_queue[id].priority = 10
                         /\ job_queue[id].scheduled_for = job_queue[id].created_at
                         /\ job_queue[id].created_at > 0
    /\ \E id \in Rows : /\ job_queue[id].priority = 0
                         /\ job_queue[id].scheduled_for > job_queue[id].created_at

\* The number of outcomes of the given kind logged for the job id.
Outcomes(id, what) ==
    Cardinality({e \in UNION {{<<w, i>> : i \in DOMAIN log[w]} : w \in Workers} :
                   log[e[1]][e[2]].what = what /\ log[e[1]][e[2]].id = id})

\* C28: with one worker running cycle after cycle, a job that started with
\* attempts 0 and max_attempts N and whose handler has failed every time has
\* run at most N times; after each of the first N - 1 failures it is pending
\* with attempts the number of failures, and after the N-th it is failed with
\* attempts N.
C28_FailsAfterMaxAttempts ==
    \A id \in Rows :
        LET k == Outcomes(id, "Failed")
            N == job_queue[id].max_attempts
            running == \E w \in Workers : pc[w] \in HandlerPcs /\ Cur(w).id = id
        IN  Outcomes(id, "Completed") = 0 =>
               /\ k <= N
               /\ running => k < N /\ job_queue[id].attempts = k + 1
               /\ ~running =>
                     /\ job_queue[id].attempts = k
                     /\ k < N => job_queue[id].status = "pending"
                     /\ k = N => job_queue[id].status = "failed"

\* A job with max_attempts 2 failed twice, in two cycles, and is failed with
\* attempts 2; another job was handled too.
C28_Witness ==
    \E id \in Rows :
        /\ job_queue[id].max_attempts = 2
        /\ Outcomes(id, "Failed") = 2
        /\ job_queue[id].status = "failed"
        /\ job_queue[id].attempts = 2
        /\ pc[1] = "returned"
        /\ Len(log[1]) = 3

\* C29: the counter of a drain cycle, which the cycle returns and POST
\* /trigger reports, is the number of jobs of the cycle whose handler
\* returned normally (failed and skipped jobs are not counted); it is
\* between 0 and 10.
C29_ProcessedCountsCompleted ==
    \A w \in Workers :
        LET done == Cardinality({i \in DOMAIN log[w] : log[w][i].what = "Completed"})
        IN  /\ processed[w] = done
            /\ processed[w] >= 0 /\ processed[w] <= 10
            /\ (request[w].trigger /\ pc[w] = "returned") =>
                  /\ Response(w).success
                  /\ Response(w).processed = done

\* A requested cycle handled ten jobs, one of which failed and one of which
\* was skipped, and reported 8.
C29_Witness ==
    \E w \in Workers :
        /\ request[w].trigger
        /\ pc[w] = "returned"
        /\ Len(log[w]) = 10
        /\ \E i \in DOMAIN log[w] : log[w][i].what = "Failed"
        /\ \E i \in DOMAIN log[w] : log[w][i].what = "Failed to lock job"
        /\ Response(w).processed = 8

\* C30: when the screenshot endpoint or its key is not configured, a capture
\* attempt fails before the screenshot service or the object storage is
\* called: no capture is ever recorded as live, every attempt leaves a
\* capture row with is_live false that carries the configuration error, the
\* attempt counts in the job's attempts, and the job is retried or failed
\* like any job whose handler fails.
C30_UnconfiguredCaptureFails ==
    (~env.SCREENSHOT_API_URL \/ ~env.SCREENSHOT_API_KEY) =>
        /\ \A w \in Workers : pc[w] \notin {"recorded", "ok"}
        /\ \A r \in submission_captures :
              /\ ~r.is_live
              /\ r.screenshot_url = << >>
              /\ r.error_message = "Screenshot service not configured"
        /\ \A w \in Workers :
              pc[w] \in {"caught", "err"} =>
                 /\ \E r \in submission_captures :
                       /\ r.run = <<w, Len(log[w])>>
                       /\ r.submission_id = Cur(w).payload.submission_id
                 /\ job_queue[Cur(w).id].attempts = Cur(w).attempts + 1
        /\ \A id \in Rows :
              job_queue[id].job_type \in CaptureTypes =>
                 /\ Outcomes(id, "Completed") = 0
                 /\ job_queue[id].status # "completed"
                 /\ (\A w \in Workers : pc[w] \in HandlerPcs => Cur(w).id # id) =>
                       /\ job_queue[id].attempts = Outcomes(id, "Failed")
                       /\ job_queue[id].status =
                             IF job_queue[id].attempts < job_queue[id].max_attempts
                             THEN "pending" ELSE "failed"
        /\ (\A w \in Workers : pc[w] \notin HandlerPcs) =>
              Cardinality(submission_captures) =
                 Cardinality({e \in UNION {{<<w, i>> : i \in DOMAIN log[w]} : w \in Workers} :
                                log[e[1]][e[2]].what = "Failed"})

\* The key is missing: a capture job with max_attempts 2 was attempted twice,
\* each attempt left a failure row, and the job is failed.
C30_Witness ==
    /\ env.SCREENSHOT_API_URL /\ ~env.SCREENSHOT_API_KEY
    /\ Cardinality(submission_captures) = 2
    /\ \E id \in Rows :
          /\ job_queue[id].job_type = "capture_submission"
          /\ job_queue[id].max_attempts = 2
          /\ job_queue[id].attempts = 2
          /\ job_queue[id].status = "failed"

\* C31: two successful captures of one submission that two invocations ran
\* were uploaded to different object-storage paths.
C31_CapturePathsDiffer ==
    \A r1, r2 \in submission_captures :
        ( /\ r1.is_live /\ r2.is_live
          /\ r1.submission_id = r2.submission_id
          /\ r1.run[1] # r2.run[1] )
        => r1.screenshot_url # r2.screenshot_url

\* C32: in every state, whatever the interleaving of drain invocations,
\* enqueues and sweeps, a job's locked_by is set if and only if its status
\* is processing.
C32_LockedIffProcessing ==
    \A id \in Rows :
        (job_queue[id].locked_by # NULL) <=> (job_queue[id].status = "processing")

\* Two invocations claimed the same job; one has completed it and the other
\* is still inside its handler; an older job was swept.
C32_Witness ==
    /\ \E id \in 1..(nextId - 1) : id \notin Rows
    /\ \E id \in Rows :
          /\ job_queue[id].status = "completed"
          /\ job_queue[id].attempts = 1
          /\ \E w \in Workers : pc[w] \in HandlerPcs /\ Cur(w).id = id
          /\ \E w \in Workers : \E i \in DOMAIN log[w] :
                log[w][i].id = id /\ log[w][i].what = "Completed"

\* C33: under any interleaving of drain invocations, the handler of a job
\* has been started at most max_attempts times.
C33_StartsAtMostMaxAttempts ==
    \A id \in Rows : Starts(id) <= job_queue[id].max_attempts

\* The monitoring jobs in the queue for the submission sid.
MonitorJobsOf(sid) ==
    {id \in Rows : /\ job_queue[id].job_type = "monitor_submission"
                   /\ job_queue[id].payload.submission_id = sid}

\* C34: a scan, also one that overlaps another, enqueues a monitoring job for
\* a schedule only while the schedule has a check left that is due, and only
\* if no job was enqueued yet for that due check.
C34_OneJobPerDueCheck ==
    [][\A sc \in Scans :
         (scan_pc[sc] = "enqueue" /\ scan_pc'[sc] = "update") =>
            LET row == monitoring_schedule[CurSchedule(sc).id]
            IN  /\ row.checks_remaining > 0
                /\ row.next_check_at <= now
                /\ \A id \in MonitorJobsOf(row.submission_id) :
                      job_queue[id].created_at < row.next_check_at]_vars

\* C35: no monitoring job is enqueued for a schedule that has been
\* deactivated, not even by a scan that read the schedule before it was.
C35_NoJobAfterDeactivation ==
    [][\A sc \in Scans :
         (scan_pc[sc] = "enqueue" /\ scan_pc'[sc] = "update") =>
            \A id \in Schedules :
               monitoring_schedule[id].submission_id = CurSchedule(sc).submission_id
                  => monitoring_schedule[id].is_active]_vars

\* C36: for every schedule, total_checks + checks_remaining is the same after
\* every step as before it, also when scans overlap: the update of a check
\* writes one less and one more than the scan's snapshot has, and a
\* deactivation changes neither column.
C36_ChecksSumIsKept ==
    [][/\ \A id \in Schedules :
            /\ id \in DOMAIN monitoring_schedule'
            /\ monitoring_schedule'[id].total_checks
                  + monitoring_schedule'[id].checks_remaining
               = monitoring_schedule[id].total_checks
                  + monitoring_schedule[id].checks_remaining
       /\ \A sc \in Scans :
            /\ (scan_pc[sc] = "update" /\ scan_pc'[sc] # "update") =>
                  LET id == CurSchedule(sc).id IN
                  /\ monitoring_schedule'[id].checks_remaining
                        = CurSchedule(sc).checks_remaining - 1
                  /\ monitoring_schedule'[id].total_checks
                        = CurSchedule(sc).total_checks + 1
            /\ (scan_pc[sc] = "deactivate" /\ scan_pc'[sc] # "deactivate") =>
                  LET id == CurSchedule(sc).id IN
                  /\ monitoring_schedule'[id].checks_remaining
                        = monitoring_schedule[id].checks_remaining
                  /\ monitoring_schedule'[id].total_checks
                        = monitoring_schedule[id].total_checks
                  /\ ~monitoring_schedule'[id].is_active]_vars

\* Two overlapping scans have both checked the same schedule (two jobs are
\* queued for it) and both have written their update.
C36_Witness ==
    /\ \A sc \in Scans : scan_pc[sc] = "idle"
    /\ now = 0
    /\ \E id \in Schedules :
          /\ Cardinality(MonitorJobsOf(monitoring_schedule[id].submission_id)) = 2
          /\ monitoring_schedule[id].last_checked_at = 0
          /\ monitoring_schedule[id].checks_remaining = 1
          /\ monitoring_schedule[id].total_checks = 29

====
